---------------------------- MODULE Spec2Model ----------------------------
(***************************************************************************)
(* Flappy Dragon (src/src/main.rs): the tick-driven game state machine,    *)
(* the player physics, the obstacle generator and the collision test.      *)
(*                                                                         *)
(* f32 values are modelled exactly.  Every f32 the game computes is a      *)
(* multiple of 2^-27 (the unit in the last place of 0.1f32), so            *)
(*   - velocity is the signed number of 2^-27 units (|velocity| < 4);      *)
(*   - y is a pair <<whole, frac>> standing for whole + frac * 2^-27 with  *)
(*     0 <= frac < 2^27 (y * 2^27 does not fit TLC's 32-bit integers);     *)
(*   - frame_time only ever holds small whole numbers of milliseconds,     *)
(*     which f32 represents exactly, and is an integer.                    *)
(* Sums are rounded to the 24-bit significand, ties to even, as IEEE-754   *)
(* single precision addition does.                                         *)
(***************************************************************************)
EXTENDS Integers, Sequences, FiniteSets, TLC

VARIABLES
    mode,        \* State.mode: "Menu", "Playing" or "End"
    player,      \* State.player: [x, y, velocity, frame]
    frame_time,  \* State.frame_time (ms)
    obstacle,    \* State.obstacle: [x, gap_y, size]
    score,       \* State.score
    key,         \* ctx.key of the frame last processed
    frame_time_ms, \* ctx.frame_time_ms of the frame last processed
    quitting,    \* ctx.quitting
    flaps,       \* number of Space frames in the current life (bounds the inputs)
    hit_arg,     \* <<o>>: the frame last processed called o.hit_obstacle; else <<>>
    ret          \* SpecCalls: <<function, result>> of the call made, else <<>>

vars == <<mode, player, frame_time, obstacle, score, key, frame_time_ms,
          quitting, flaps, hit_arg, ret>>

SCREEN_WIDTH == 40
SCREEN_HEIGHT == 25
FRAME_DURATION == 75
DRAGON_FRAMES == <<64, 1, 2, 3, 2, 1>>

---------------------------------------------------------------------------
(* Bounds of the model.                                                    *)

\* Spec: the physics stops advancing the player once x reaches MaxX
MaxX == 42
\* Spec: at most MaxFlaps frames with the Space key per life
MaxFlaps == 2
\* SpecClimb: the physics stops advancing the player once x reaches ClimbMaxX
ClimbMaxX == 29
\* SpecGlide: no Space frame once x has reached GlideMaxX
GlideMaxX == 46
\* SpecFall: at most MaxFallFlaps frames with the Space key per life
MaxFallFlaps == 1
\* SpecPilot: a life stops once the score reaches PilotMaxScore
PilotMaxScore == 10
\* SpecCalls: scores Obstacle::new is called with
MaxScore == 14
\* SpecCalls: rows hit_obstacle is called with
MaxRow == 27

\* ctx.key of a frame; "Other" stands for every key the game does not name
Keys == {"None", "Space", "P", "Q", "Other"}
\* ctx.frame_time_ms of a frame: one value that leaves the accumulator at
\* exactly FRAME_DURATION and one that exceeds it
Elapsed == {75, 80}
\* the inputs of SpecClimb: every frame runs the physics
ClimbKeys == {"None", "Space", "P"}
ClimbElapsed == {80}
\* the inputs of SpecGlide
GlideKeys == {"None", "Space", "P"}
GlideElapsed == {75, 80, 160}
\* the inputs of SpecFall
FallKeys == {"None", "Space", "P"}
FallElapsed == {75, 80}
\* random.range(5, 20) draws from GapRange; the model draws from GapDraws
GapRange == 5..19
GapDraws == {5, 12, 19}

---------------------------------------------------------------------------
(* f32 arithmetic.                                                         *)

Unit == 2^27

\* 0.1f32 = 13421773 * 2^-27
TENTH == 13421773

\* spacing of the f32 values around a magnitude of n units, in units
Ulp(n) ==
    IF n < 2^24 THEN 1
    ELSE IF n < 2^25 THEN 2
    ELSE IF n < 2^26 THEN 4
    ELSE IF n < 2^27 THEN 8
    ELSE IF n < 2^28 THEN 16
    ELSE IF n < 2^29 THEN 32
    ELSE IF n < 2^30 THEN 64
    ELSE 128

\* round n >= 0 to a multiple of g, ties to the even multiple
RoundTiesEven(n, g) ==
    LET q == n \div g
        r == n % g
    IN  IF 2 * r > g \/ (2 * r = g /\ q % 2 = 1) THEN (q + 1) * g ELSE q * g

\* the f32 nearest to n units, for |n| < 2^31
RoundF32(n) ==
    IF n < 0 THEN -RoundTiesEven(-n, Ulp(-n)) ELSE RoundTiesEven(n, Ulp(n))

\* spacing of the f32 values around whole + frac/Unit, in units
UlpY(whole, frac) ==
    IF whole = 0 THEN Ulp(frac)
    ELSE IF whole < 2 THEN 16
    ELSE IF whole < 4 THEN 32
    ELSE IF whole < 8 THEN 64
    ELSE IF whole < 16 THEN 128
    ELSE IF whole < 32 THEN 256
    ELSE 512

\* y + v in f32: y = <<whole, frac>> >= 0, v in units.  A negative sum is
\* returned as <<whole, frac>> with whole < 0 (floor and remainder).
AddF32(y, v) ==
    LET t == y[2] + v
        w == y[1] + (t \div Unit)
        f == t % Unit
    IN  IF w < 0 THEN <<w, f>>
        ELSE LET r == RoundTiesEven(f, UlpY(w, f))
             IN  IF r = Unit THEN <<w + 1, 0>> ELSE <<w, r>>

\* `y as i32`: truncation toward zero
AsI32(y) == IF y[1] < 0 /\ y[2] > 0 THEN y[1] + 1 ELSE y[1]

\* i32 division truncates toward zero
DivI32(a, b) == IF a >= 0 THEN a \div b ELSE -((-a) \div b)

Max(a, b) == IF a >= b THEN a ELSE b

---------------------------------------------------------------------------
(* Player                                                                  *)

Player_new(x, y) == [x |-> x, y |-> <<y, 0>>, velocity |-> 0, frame |-> 0]

\* faulty variant: the clamp of y at the top of the screen is missing
gravity_and_move_noClamp(p) ==
    LET v == IF p.velocity < 2 * Unit THEN RoundF32(p.velocity + TENTH)
             ELSE p.velocity
    IN  [x |-> p.x + 1, y |-> AddF32(p.y, v), velocity |-> v,
         frame |-> (p.frame + 1) % Len(DRAGON_FRAMES)]

\* faulty variant: the player advances two columns per physics step
gravity_and_move_twoColumns(p) ==
    LET v == IF p.velocity < 2 * Unit THEN RoundF32(p.velocity + TENTH)
             ELSE p.velocity
        s == AddF32(p.y, v)
        y == IF s[1] < 0 THEN <<0, 0>> ELSE s
    IN  [x |-> p.x + 2, y |-> y, velocity |-> v,
         frame |-> (p.frame + 1) % Len(DRAGON_FRAMES)]

gravity_and_move(p) ==
    LET v == IF p.velocity < 2 * Unit THEN RoundF32(p.velocity + TENTH)
             ELSE p.velocity
        s == AddF32(p.y, v)
        y == IF s[1] < 0 THEN <<0, 0>> ELSE s
    IN  [x |-> p.x + 1, y |-> y, velocity |-> v,
         frame |-> (p.frame + 1) % Len(DRAGON_FRAMES)]

\* faulty variant: the impulse is added to the velocity instead of replacing it
flap_stacking(p) == [p EXCEPT !.velocity = RoundF32(p.velocity - Unit)]

flap(p) == [p EXCEPT !.velocity = -Unit]

---------------------------------------------------------------------------
(* Obstacle                                                                *)

\* faulty variant: the gap size has no floor
Obstacle_new_noFloor(x, sc, g) == [x |-> x, gap_y |-> g, size |-> 10 - sc]

\* faulty variant: the size the comment in Obstacle::new describes,
\* the maximum of 20 minus the score and 2
Obstacle_new_twentyMinusScore(x, sc, g) ==
    [x |-> x, gap_y |-> g, size |-> Max(2, 20 - sc)]

\* faulty variant: the size is floored at 1
Obstacle_new_floorOne(x, sc, g) ==
    [x |-> x, gap_y |-> g, size |-> Max(1, 10 - sc)]

\* g is the value random.range(5, 20) returns
Obstacle_new(x, sc, g) == [x |-> x, gap_y |-> g, size |-> Max(2, 10 - sc)]

\* faulty variant: the lower edge of the gap counts as the wall drawn there
hit_obstacle_lowerEdge(o, p) ==
    LET half_size == DivI32(o.size, 2)
    IN  /\ p.x = o.x
        /\ \/ AsI32(p.y) < o.gap_y - half_size
           \/ AsI32(p.y) >= o.gap_y + half_size

\* faulty variant: the columns are not compared
hit_obstacle_anyColumn(o, p) ==
    LET half_size == DivI32(o.size, 2)
    IN  \/ AsI32(p.y) < o.gap_y - half_size
        \/ AsI32(p.y) > o.gap_y + half_size

hit_obstacle(o, p) ==
    LET half_size == DivI32(o.size, 2)
    IN  /\ p.x = o.x
        /\ \/ AsI32(p.y) < o.gap_y - half_size
           \/ AsI32(p.y) > o.gap_y + half_size

---------------------------------------------------------------------------
(* State                                                                   *)

State_new(g) ==
    /\ player = Player_new(5, 25)
    /\ frame_time = 0
    /\ obstacle = Obstacle_new(SCREEN_WIDTH, 0, g)
    /\ mode = "Menu"
    /\ score = 0

\* faulty variant: the score survives the restart
restart_keepScore ==
    /\ player' = Player_new(5, SCREEN_WIDTH \div 2)
    /\ frame_time' = 0
    /\ \E g \in GapDraws : obstacle' = Obstacle_new(SCREEN_WIDTH, score, g)
    /\ mode' = "Playing"
    /\ score' = score

\* faulty variant: the restart puts the obstacle one screen ahead of the player
restart_oneScreenAhead ==
    /\ player' = Player_new(5, SCREEN_WIDTH \div 2)
    /\ frame_time' = 0
    /\ \E g \in GapDraws : obstacle' = Obstacle_new(5 + SCREEN_WIDTH, 0, g)
    /\ mode' = "Playing"
    /\ score' = 0

restart ==
    /\ player' = Player_new(5, SCREEN_WIDTH \div 2)
    /\ frame_time' = 0
    /\ \E g \in GapDraws : obstacle' = Obstacle_new(SCREEN_WIDTH, 0, g)
    /\ mode' = "Playing"
    /\ score' = 0

\* faulty variant: every key but Q starts the game
main_menu_anyKey(k) ==
    \/ k # "Q" /\ restart /\ UNCHANGED quitting
    \/ k = "Q" /\ quitting' = TRUE
               /\ UNCHANGED <<mode, player, frame_time, obstacle, score>>

main_menu(k) ==
    \/ k = "P" /\ restart /\ UNCHANGED quitting
    \/ k = "Q" /\ quitting' = TRUE
               /\ UNCHANGED <<mode, player, frame_time, obstacle, score>>
    \/ k \notin {"P", "Q"}
               /\ UNCHANGED <<mode, player, frame_time, obstacle, score, quitting>>

\* faulty variant: the Dead screen does not handle Q
dead_noQuit(k) ==
    \/ k = "P" /\ restart /\ UNCHANGED quitting
    \/ k # "P" /\ UNCHANGED <<mode, player, frame_time, obstacle, score, quitting>>

\* faulty variant: any key other than Q restarts the game from the Dead screen
dead_anyKeyRestarts(k) ==
    \/ k \notin {"None", "Q"} /\ restart /\ UNCHANGED quitting
    \/ k = "Q" /\ quitting' = TRUE
               /\ UNCHANGED <<mode, player, frame_time, obstacle, score>>
    \/ k = "None"
               /\ UNCHANGED <<mode, player, frame_time, obstacle, score, quitting>>

dead(k) ==
    \/ k = "P" /\ restart /\ UNCHANGED quitting
    \/ k = "Q" /\ quitting' = TRUE
               /\ UNCHANGED <<mode, player, frame_time, obstacle, score>>
    \/ k \notin {"P", "Q"}
               /\ UNCHANGED <<mode, player, frame_time, obstacle, score, quitting>>

\* faulty variant: the physics also runs when the accumulated time equals
\* FRAME_DURATION
physics_due_atThreshold(t) == t >= FRAME_DURATION

\* `self.frame_time > FRAME_DURATION`: the physics runs in this frame
physics_due(t) == t > FRAME_DURATION

\* faulty variant: reaching the obstacle's column already counts as a pass
passed_onReach(p, o) == p.x >= o.x

\* `self.player.x > self.obstacle.x`: the player has passed the obstacle
passed(p, o) == p.x > o.x

\* faulty variant: row SCREEN_HEIGHT already counts as below the screen
game_over_onLastRow(p, o) == AsI32(p.y) >= SCREEN_HEIGHT \/ hit_obstacle(o, p)

\* faulty variant: falling below the screen does not end the game
game_over_obstacleOnly(p, o) == hit_obstacle(o, p)

\* `self.player.y as i32 > SCREEN_HEIGHT || self.obstacle.hit_obstacle(&self.player)`
game_over(p, o) == AsI32(p.y) > SCREEN_HEIGHT \/ hit_obstacle(o, p)

\* faulty variant: the collision test runs before the pass is scored, on
\* the obstacle the frame started with
play_checkBeforeRespawn(k, dt) ==
    LET t1 == frame_time + dt
        p1 == IF physics_due(t1) THEN gravity_and_move(player) ELSE player
        p2 == IF k = "Space" THEN flap(p1) ELSE p1
        sc2 == IF passed(p2, obstacle) THEN score + 1 ELSE score
    IN  /\ frame_time' = IF physics_due(t1) THEN 0 ELSE t1
        /\ player' = p2
        /\ score' = sc2
        /\ IF passed(p2, obstacle)
           THEN \E g \in GapDraws :
                   obstacle' = Obstacle_new(p2.x + SCREEN_WIDTH, sc2, g)
           ELSE obstacle' = obstacle
        /\ mode' = IF game_over(p2, obstacle) THEN "End" ELSE "Playing"
        /\ hit_arg' = IF AsI32(p2.y) > SCREEN_HEIGHT THEN <<>> ELSE <<obstacle>>
        /\ UNCHANGED quitting

play(k, dt) ==
    LET t1 == frame_time + dt
        p1 == IF physics_due(t1) THEN gravity_and_move(player) ELSE player
        p2 == IF k = "Space" THEN flap(p1) ELSE p1
        sc2 == IF passed(p2, obstacle) THEN score + 1 ELSE score
    IN  /\ frame_time' = IF physics_due(t1) THEN 0 ELSE t1
        /\ player' = p2
        /\ score' = sc2
        /\ IF passed(p2, obstacle)
           THEN \E g \in GapDraws :
                   obstacle' = Obstacle_new(p2.x + SCREEN_WIDTH, sc2, g)
           ELSE obstacle' = obstacle
        /\ mode' = IF game_over(p2, obstacle') THEN "End" ELSE "Playing"
        /\ hit_arg' = IF AsI32(p2.y) > SCREEN_HEIGHT THEN <<>> ELSE <<obstacle'>>
        /\ UNCHANGED quitting

---------------------------------------------------------------------------
(* main_loop: each frame the driver polls the input and calls tick, until  *)
(* a frame has set ctx.quitting.                                           *)

Poll(k, dt) ==
    /\ ~quitting
    /\ key' = k
    /\ frame_time_ms' = dt
    /\ UNCHANGED ret

Init ==
    /\ \E g \in GapDraws : State_new(g)
    /\ key = "None"
    /\ frame_time_ms = 0
    /\ quitting = FALSE
    /\ flaps = 0
    /\ hit_arg = <<>>
    /\ ret = <<>>

\* tick: the three arms of its match on self.mode
TickMenu ==
    \E k \in Keys, dt \in Elapsed :
        Poll(k, dt) /\ mode = "Menu" /\ main_menu(k) /\ flaps' = 0 /\ hit_arg' = <<>>

TickEnd ==
    \E k \in Keys, dt \in Elapsed :
        Poll(k, dt) /\ mode = "End" /\ dead(k) /\ flaps' = 0 /\ hit_arg' = <<>>

TickPlaying ==
    \E k \in Keys, dt \in Elapsed :
        /\ Poll(k, dt) /\ mode = "Playing"
        /\ physics_due(frame_time + dt) => player.x < MaxX
        /\ k = "Space" => flaps < MaxFlaps
        /\ play(k, dt)
        /\ flaps' = IF k = "Space" THEN flaps + 1 ELSE flaps

Next == TickMenu \/ TickEnd \/ TickPlaying

Spec == Init /\ [][Next]_vars

---------------------------------------------------------------------------
(* SpecClimb: the same game, the flaps not bounded, over fewer inputs and  *)
(* a shorter flight, so that the player can climb to the top of the screen.*)

ClimbMenu ==
    \E k \in ClimbKeys, dt \in ClimbElapsed :
        Poll(k, dt) /\ mode = "Menu" /\ main_menu(k) /\ hit_arg' = <<>>
                    /\ UNCHANGED flaps

ClimbEnd ==
    \E k \in ClimbKeys, dt \in ClimbElapsed :
        Poll(k, dt) /\ mode = "End" /\ dead(k) /\ hit_arg' = <<>>
                    /\ UNCHANGED flaps

ClimbPlaying ==
    \E k \in ClimbKeys, dt \in ClimbElapsed :
        /\ Poll(k, dt) /\ mode = "Playing"
        /\ physics_due(frame_time + dt) => player.x < ClimbMaxX
        /\ play(k, dt)
        /\ UNCHANGED flaps

NextClimb == ClimbMenu \/ ClimbEnd \/ ClimbPlaying

SpecClimb == Init /\ [][NextClimb]_vars

---------------------------------------------------------------------------
(* SpecGlide: the same game, the physics not bounded, played by a player   *)
(* who flaps only when not rising and not at all from x = GlideMaxX on.    *)
(* P is pressed on the Menu and Dead screens only.  Every life ends, so    *)
(* the state space is finite; the flight is long enough to reach the top   *)
(* of the screen and then the terminal velocity.                           *)

GlideMenu ==
    \E k \in GlideKeys, dt \in GlideElapsed :
        Poll(k, dt) /\ mode = "Menu" /\ main_menu(k) /\ flaps' = 0
                    /\ hit_arg' = <<>>

GlideEnd ==
    \E k \in GlideKeys, dt \in GlideElapsed :
        Poll(k, dt) /\ mode = "End" /\ dead(k) /\ flaps' = 0
                    /\ hit_arg' = <<>>

GlidePlaying ==
    \E k \in GlideKeys, dt \in GlideElapsed :
        /\ Poll(k, dt) /\ mode = "Playing"
        /\ k = "Space" => (player.velocity >= 0 /\ player.x < GlideMaxX)
        /\ k # "P"
        /\ play(k, dt)
        /\ flaps' = IF k = "Space" THEN flaps + 1 ELSE flaps

NextGlide == GlideMenu \/ GlideEnd \/ GlidePlaying

SpecGlide == Init /\ [][NextGlide]_vars

---------------------------------------------------------------------------
(* SpecFall: the same game, the physics not bounded, with at most          *)
(* MaxFallFlaps Space frames per life and P pressed on the Menu and Dead   *)
(* screens only.  main_loop calls tick frame after frame: a Playing frame  *)
(* that can be taken is eventually taken (weak fairness).                  *)

FallMenu ==
    \E k \in FallKeys, dt \in FallElapsed :
        Poll(k, dt) /\ mode = "Menu" /\ main_menu(k) /\ flaps' = 0
                    /\ hit_arg' = <<>>

FallEnd ==
    \E k \in FallKeys, dt \in FallElapsed :
        Poll(k, dt) /\ mode = "End" /\ dead(k) /\ flaps' = 0
                    /\ hit_arg' = <<>>

FallPlaying ==
    \E k \in FallKeys, dt \in FallElapsed :
        /\ Poll(k, dt) /\ mode = "Playing"
        /\ k = "Space" => flaps < MaxFallFlaps
        /\ k # "P"
        /\ play(k, dt)
        /\ flaps' = IF k = "Space" THEN flaps + 1 ELSE flaps

NextFall == FallMenu \/ FallEnd \/ FallPlaying

SpecFall == Init /\ [][NextFall]_vars /\ WF_vars(FallPlaying)

---------------------------------------------------------------------------
(* SpecPilot: the same game over many obstacles.  The player presses Space *)
(* exactly in the frames that start with its row below the centre of the   *)
(* gap, every frame lasts 80 ms, and a life is followed until it ends or   *)
(* its score reaches PilotMaxScore.                                        *)

PilotKeys == {"None", "P"}

PilotKey == IF AsI32(player.y) > obstacle.gap_y THEN "Space" ELSE "None"

PilotMenu ==
    \E k \in PilotKeys :
        Poll(k, 80) /\ mode = "Menu" /\ main_menu(k) /\ flaps' = 0
                    /\ hit_arg' = <<>>

PilotEnd ==
    \E k \in PilotKeys :
        Poll(k, 80) /\ mode = "End" /\ dead(k) /\ flaps' = 0
                    /\ hit_arg' = <<>>

PilotPlaying ==
    /\ Poll(PilotKey, 80) /\ mode = "Playing"
    /\ score < PilotMaxScore
    /\ play(PilotKey, 80)
    /\ UNCHANGED flaps

NextPilot == PilotMenu \/ PilotEnd \/ PilotPlaying

SpecPilot == Init /\ [][NextPilot]_vars

---------------------------------------------------------------------------
(* SpecCalls: hit_obstacle and Obstacle::new called directly on inputs     *)
(* drawn from bounded sets.                                                *)

ProbeX == {5, 44, 45, 46}
ProbeY == {<<w, f>> : w \in 0..MaxRow, f \in {0, Unit \div 2}}

InitCalls ==
    /\ mode = "Playing"
    /\ frame_time = 0
    /\ score \in 0..MaxScore
    /\ player \in {[Player_new(x, 0) EXCEPT !.y = y] : x \in ProbeX, y \in ProbeY}
    /\ \E g \in GapDraws : obstacle = Obstacle_new(5 + SCREEN_WIDTH, score, g)
    /\ key = "None"
    /\ frame_time_ms = 0
    /\ quitting = FALSE
    /\ flaps = 0
    /\ hit_arg = <<>>
    /\ ret = <<>>

CallHit ==
    /\ ret = <<>>
    /\ ret' = <<"hit_obstacle", hit_obstacle(obstacle, player)>>
    /\ UNCHANGED <<mode, player, frame_time, obstacle, score, key,
                   frame_time_ms, quitting, flaps, hit_arg>>

CallNew ==
    /\ ret = <<>>
    /\ \E g \in GapRange :
          obstacle' = Obstacle_new(player.x + SCREEN_WIDTH, score, g)
    /\ ret' = <<"Obstacle_new">>
    /\ UNCHANGED <<mode, player, frame_time, score, key, frame_time_ms,
                   quitting, flaps, hit_arg>>

NextCalls == CallHit \/ CallNew

SpecCalls == InitCalls /\ [][NextCalls]_vars

---------------------------------------------------------------------------
(* Claims.                                                                 *)

\* y > n for a whole number n, y compared as the f32 it is (no truncation)
YGreater(y, n) == y[1] > n \/ (y[1] = n /\ y[2] > 0)

\* the failure condition of a Playing frame, spelled out on a player and an
\* obstacle: the row of the player is past the bottom of the screen, or the
\* player is in the obstacle's column and its row is outside the gap
RowFailure(p, o) ==
    \/ AsI32(p.y) > 25
    \/ /\ p.x = o.x
       /\ \/ AsI32(p.y) < o.gap_y - DivI32(o.size, 2)
          \/ AsI32(p.y) > o.gap_y + DivI32(o.size, 2)

\* C1: the mode starts as Menu, and a frame changes it only from Menu to
\* Playing on the start key, from Playing to Dead (End), or from Dead to
\* Playing on the restart key; a start/restart key pressed in Playing changes
\* the mode only if the frame's failure condition holds.
C1_ModeTransitions ==
    /\ mode = "Menu"
    /\ [][ /\ mode' # mode =>
                \/ mode = "Menu" /\ mode' = "Playing" /\ key' = "P"
                \/ mode = "Playing" /\ mode' = "End"
                \/ mode = "End" /\ mode' = "Playing" /\ key' = "P"
           /\ (mode = "Playing" /\ key' = "P" /\ mode' # "Playing") =>
                RowFailure(player', obstacle')
         ]_vars

\* a start key was pressed in the middle of a life and the game plays on
C1_Witness == mode = "Playing" /\ key = "P" /\ player.x > 5 /\ score = 1

\* C2 as stated: in every mode a frame with the quit key sets ctx.quitting
C2_QuitInEveryMode == [][key' = "Q" => quitting']_vars

\* C2, amended: in Menu and in Dead a frame with the quit key sets
\* ctx.quitting; in Playing no key does: the flag keeps its value.
C2_QuitInMenuAndDead ==
    [][ /\ (mode \in {"Menu", "End"} /\ key' = "Q") => quitting'
        /\ mode = "Playing" => quitting' = quitting
      ]_vars

\* the game was quit from the Dead screen
C2_Witness == mode = "End" /\ key = "Q" /\ quitting

\* C3 as stated: a Playing frame ends in Dead iff the vertical position, the
\* f32 itself, exceeds 25 or the collision test on the current obstacle holds
C3_DeadIffBelowScreenOrHit ==
    [][ mode = "Playing" =>
          /\ mode' \in {"Playing", "End"}
          /\ mode' = "End" <=>
                \/ YGreater(player'.y, 25)
                \/ hit_obstacle(obstacle', player')
      ]_vars

\* C3, amended: a Playing frame ends in Dead iff, at the end of the frame,
\* the vertical position truncated to an integer exceeds 25 (y >= 26) or the
\* collision test on the current obstacle holds; otherwise it stays Playing.
C3_DeadIffRowFailure ==
    [][ mode = "Playing" =>
          /\ mode' \in {"Playing", "End"}
          /\ mode' = "End" <=> RowFailure(player', obstacle')
      ]_vars

\* a frame ended in Dead by a collision, the player still on the screen
C3_Witness ==
    mode = "End" /\ player.x = obstacle.x /\ AsI32(player.y) <= SCREEN_HEIGHT

\* the row of an f32 position y >= 0: its whole part
Row(y) == y[1]

\* the f32 position y lies in the closed interval [lo, hi] of whole bounds
YWithin(y, lo, hi) == y[1] >= lo /\ ~YGreater(y, hi)

\* the result of a direct call of hit_obstacle is in ret
HitCalled == Len(ret) = 2 /\ ret[1] = "hit_obstacle"

\* C4 as stated: hit_obstacle is true iff the columns are equal and the
\* vertical position, the f32 itself, lies outside the closed interval
\* [gap_y - size/2, gap_y + size/2]
C4_HitIffOutsideInterval ==
    HitCalled =>
        (ret[2] <=>
            /\ player.x = obstacle.x
            /\ ~YWithin(player.y, obstacle.gap_y - obstacle.size \div 2,
                                  obstacle.gap_y + obstacle.size \div 2))

\* C4, amended: hit_obstacle is true iff the columns are equal and the
\* vertical position truncated to an integer lies outside the closed interval
\* [gap_y - size/2, gap_y + size/2].
C4_HitIffRowOutsideInterval ==
    HitCalled =>
        (ret[2] <=>
            /\ player.x = obstacle.x
            /\ Row(player.y) \notin (obstacle.gap_y - obstacle.size \div 2)
                                    .. (obstacle.gap_y + obstacle.size \div 2))

\* hit_obstacle reported no hit for a player below the interval's upper
\* bound by less than one row
C4_Witness ==
    /\ HitCalled /\ ~ret[2] /\ player.x = obstacle.x
    /\ Row(player.y) = obstacle.gap_y + obstacle.size \div 2
    /\ player.y[2] > 0

\* the obstacle of the scenario: x = 45, gap centre 12, half-size 4
ScenarioObstacle ==
    obstacle.x = 45 /\ obstacle.gap_y = 12 /\ obstacle.size \div 2 = 4

\* C5 as stated: player at x = 5, obstacle at x = 45 with gap centre 12 and
\* half-size 4: no collision for y in [8,16], a collision for y = 20
C5_ScenarioAsStated ==
    (HitCalled /\ ScenarioObstacle /\ player.x = 5) =>
        /\ YWithin(player.y, 8, 16) => ~ret[2]
        /\ player.y = <<20, 0>> => ret[2]

\* C5, amended: with the player at x = 5 and that obstacle at x = 45 the
\* test reports no collision for any y, y = 20 included, the columns being
\* different; with the player in the obstacle's column, x = 45, it reports
\* no collision for every y in [8,16] and a collision for y = 20.
C5_Scenario ==
    (HitCalled /\ ScenarioObstacle) =>
        /\ player.x = 5 => ~ret[2]
        /\ player.x = 45 =>
              /\ YWithin(player.y, 8, 16) => ~ret[2]
              /\ player.y = <<20, 0>> => ret[2]

\* the collision of the scenario, the player in the obstacle's column
C5_Witness ==
    /\ HitCalled /\ ScenarioObstacle /\ ret[2]
    /\ player.x = 45 /\ player.y = <<20, 0>>

\* C6: a Playing frame at whose scoring check the player's x is greater than
\* the obstacle's x adds exactly 1 to the score and replaces the obstacle by
\* one at player.x + 40 whose size is max(2, 10 - new score); every other
\* Playing frame leaves the score and the obstacle unchanged.
C6_PassScoresAndRespawns ==
    [][ mode = "Playing" =>
          IF player'.x > obstacle.x
          THEN /\ score' = score + 1
               /\ obstacle'.x = player'.x + 40
               /\ obstacle'.size = (IF 10 - score' > 2 THEN 10 - score' ELSE 2)
               /\ obstacle'.gap_y \in GapRange
          ELSE score' = score /\ obstacle' = obstacle
      ]_vars

\* the first obstacle was passed in the frame just processed
C6_Witness ==
    /\ mode = "Playing" /\ score = 1 /\ player.x = 41
    /\ obstacle.x = 81 /\ obstacle.size = 9

C8_YNonNegative == player.y[1] >= 0 /\ player.y[2] >= 0

\* the physics has clamped the player at the top of the screen
C8_Witness ==
    mode = "Playing" /\ player.y = <<0, 0>> /\ player.velocity < 0

C11_UnrecognizedInputNoOp ==
    [][ /\ (mode \in {"Menu", "End"} /\ key' \notin {"P", "Q"}) =>
              UNCHANGED <<mode, score, player, obstacle, frame_time>>
        /\ (mode = "Playing" /\ key' # "Space") =>
              play("None", frame_time_ms') ]_vars

\* an unrecognised key was pressed on the Dead screen after a scored life,
\* and the game is still dead with its score
C11_Witness ==
    /\ mode = "End" /\ key = "Other" /\ score = 1 /\ flaps = 0
    /\ player.x > obstacle.x - SCREEN_WIDTH

\* a frame that creates an obstacle: the start or restart of a game, or a pass
ObstacleCreated ==
    (mode # "Playing" /\ mode' = "Playing") \/ score' = score + 1

\* C12 as stated: whenever an obstacle is created, on start or restart and
\* on each pass, its x is the player's x at that moment plus the screen width
C12_AlwaysOneScreenAhead ==
    [][ ObstacleCreated => obstacle'.x = player'.x + SCREEN_WIDTH ]_vars

\* C12: the obstacle created on a pass is one screen width ahead of the
\* player; the obstacle of the program start and of every start or restart
\* is at x = SCREEN_WIDTH with the player at x = 5, that is 35 columns
\* ahead; no other frame changes the obstacle.
C12_ObstaclePlacement ==
    [][ /\ mode = "Menu" => (obstacle.x = SCREEN_WIDTH /\ player.x = 5)
        /\ (mode # "Playing" /\ mode' = "Playing") =>
              (obstacle'.x = SCREEN_WIDTH /\ player'.x = 5)
        /\ score' = score + 1 => obstacle'.x = player'.x + SCREEN_WIDTH
        /\ ~ObstacleCreated => obstacle' = obstacle ]_vars

\* an obstacle created on a pass, in the frame of the pass
C12_Witness ==
    /\ mode = "Playing" /\ score = 1 /\ frame_time = 0 /\ flaps = 2
    /\ obstacle.x = player.x + SCREEN_WIDTH /\ hit_arg = <<obstacle>>

\* C13 as stated: in every reachable state the velocity lies between the
\* flap constant -1.0 and the terminal cap 2.0
C13_VelocityWithinCap ==
    player.velocity >= -Unit /\ player.velocity <= 2 * Unit

C15_PhysicsGated ==
    [][ mode = "Playing" =>
          LET t1 == frame_time + frame_time_ms'
              v1 == IF player.velocity < 2 * Unit
                    THEN RoundF32(player.velocity + TENTH)
                    ELSE player.velocity
              y1 == AddF32(player.y, v1)
          IN  /\ t1 <= 75 =>
                    /\ frame_time' = t1
                    /\ player'.x = player.x /\ player'.y = player.y
                    /\ \/ player'.velocity = player.velocity
                       \/ key' = "Space" /\ player'.velocity = -Unit
              /\ t1 > 75 =>
                    /\ frame_time' = 0
                    /\ player'.x = player.x + 1
                    /\ player'.y = IF y1[1] < 0 THEN <<0, 0>> ELSE y1
                    /\ player'.velocity =
                           IF key' = "Space" THEN -Unit ELSE v1 ]_vars

\* a frame of 160 ms, more than two frame durations, ran one physics step
C15_Witness ==
    /\ mode = "Playing" /\ frame_time_ms = 160 /\ frame_time = 0
    /\ player.x = 6 /\ player.velocity = TENTH

RowInGap(p, o) ==
    /\ AsI32(p.y) >= o.gap_y - DivI32(o.size, 2)
    /\ AsI32(p.y) <= o.gap_y + DivI32(o.size, 2)

\* C17: no hit is skipped.  A frame that increments the score starts in a
\* Playing state left by a Playing frame in which the player was in the
\* column of that obstacle, the collision test was evaluated against it and
\* found the player inside the gap; a live player is never past the column
\* of the obstacle, and a player in that column outside the gap is dead.
C17_NoHitSkipped ==
    [][ /\ score' = score + 1 =>
              /\ mode = "Playing"
              /\ player.x = obstacle.x
              /\ hit_arg = <<obstacle>>
              /\ ~hit_obstacle(obstacle, player)
              /\ RowInGap(player, obstacle)
              /\ player'.x = obstacle.x + 1
        /\ mode' = "Playing" => player'.x <= obstacle'.x
        /\ (mode = "Playing" /\ player'.x = obstacle'.x
                             /\ ~RowInGap(player', obstacle')) =>
              mode' = "End" ]_vars

\* the score was incremented by a frame with an unrecognised key
C17_Witness ==
    /\ mode = "Playing" /\ score = 1 /\ key = "Other"
    /\ player.x = 41 /\ obstacle.x = 81 /\ frame_time = 0

\* a player in the column of the obstacle and outside its gap has died
C17_HitWitness ==
    /\ mode = "End" /\ score = 0 /\ player.x = obstacle.x
    /\ AsI32(player.y) <= 25 /\ ~RowInGap(player, obstacle)

C18_DeadWitness == mode = "End" /\ score = 9 /\ obstacle.size = 2

\* C19: with frames that keep coming, a Playing state in which the Space
\* key is never pressed again is followed by Dead mode; and a life in which
\* Space was never pressed ends by falling below the screen with the score
\* still 0, before the column of the first obstacle.
C19_FallsToDeath ==
    /\ \A n \in 0..MaxFallFlaps :
          [](mode = "Playing" /\ flaps = n => <>(mode = "End" \/ flaps > n))
    /\ [][ (mode = "Playing" /\ mode' = "End" /\ flaps' = 0) =>
              /\ score' = 0
              /\ AsI32(player'.y) > SCREEN_HEIGHT
              /\ obstacle'.x = SCREEN_WIDTH
              /\ player'.x < obstacle'.x ]_vars

\* a life without any flap has ended below the screen, after 11 physics
\* steps, 24 columns before the first obstacle
C19_Witness ==
    /\ mode = "End" /\ flaps = 0 /\ score = 0 /\ key = "None"
    /\ hit_arg = <<>> /\ AsI32(player.y) = 26 /\ player.x = 16
    /\ obstacle.x = SCREEN_WIDTH

===========================================================================
